---- MODULE Spec2Model ----
(***************************************************************************)
(* ASCII Game Hub (ascii-game-hub.py): the interactive menu state machine, *)
(* the installed-game filter, the game-list formatter and center_block.    *)
(*                                                                         *)
(* Text the code inspects character by character (input lines, text        *)
(* blocks) is a sequence of one-character strings.  Game names and message *)
(* fragments the code only passes around are plain strings; a formatted    *)
(* message is the sequence of its fragments.                               *)
(*                                                                         *)
(* The hub is single-threaded.  A state of the model is the hub blocked at *)
(* one of its blocking points; an action is everything the code does from  *)
(* one blocking point to the next.                                         *)
(***************************************************************************)
EXTENDS Integers, Sequences, FiniteSets, TLC

\* ------------------------------------------------------------------ bounds
MaxVolatile == 2   \* how many leading ACTION_GAMES may be (un)installed
MaxLineLen  == 2   \* longest input line typed at a menu
MaxExitCode == 2   \* a child exits with a code in 0..MaxExitCode
MaxScan     == 12  \* leading candidates whose installation varies (SpecList)
MaxTextLen  == 4   \* longest text block given to center_block
MaxWidth    == 5   \* widest terminal given to center_block

\* ------------------------------------------------------------ Config data
STORY_GAMES ==
  << "rogue", "nethack", "crawl", "angband", "gearhead",
     "colossal-cave-adventure", "slashem", "cataclysm", "qud",
     "open-adventure", "brogue", "omega-rpg", "moria" >>

ACTION_GAMES ==
  << "robotfindskitten", "tint", "tty-solitaire", "tetrinet-client",
     "petris", "greed", "asciijump", "nsnake", "piu-piu", "curseofwar",
     "ascii-patrol", "moon-buggy", "ninvaders", "openra", "openttd" >>

BOARD_GAMES ==
  << "nettoe", "bastard tetris", "trader", "chroma-curses", "nudoku",
     "nbsdgames", "empire", "vitetris", "sudoku", "freesweep", "gnugo",
     "netris", "gnuminishogi", "cavezofphear", "bsdgames", "bastet",
     "zivot", "npush", "2048", "gomoku", "hangman", "atc", "gnome-mines",
     "gnome-sudoku" >>

\* Config.CATEGORIES: selection key -> (name, games, header)
CATEGORIES ==
  ( << "1" >> :> [name |-> "Story / Roguelike", games |-> STORY_GAMES,
                  header |-> "story_header"] ) @@
  ( << "2" >> :> [name |-> "Action / Arcade", games |-> ACTION_GAMES,
                  header |-> "action_header"] ) @@
  ( << "3" >> :> [name |-> "Boards / Classics", games |-> BOARD_GAMES,
                  header |-> "boards_header"] )

\* ------------------------------------------------------------- characters
Digits == { "0", "1", "2", "3" }
Whitespace == { " " }
LineChars == Digits \cup Whitespace \cup { "a", "-" }

Range(s) == { s[i] : i \in DOMAIN s }

SeqsUpTo(S, n) == UNION { [1..k -> S] : k \in 0..n }

\* str.rstrip(): drop trailing whitespace
RECURSIVE rstrip(_)
rstrip(s) ==
  IF s = << >> THEN << >>
  ELSE IF s[Len(s)] \in Whitespace THEN rstrip(SubSeq(s, 1, Len(s) - 1))
  ELSE s

\* str.lstrip(): drop leading whitespace
RECURSIVE lstrip(_)
lstrip(s) ==
  IF s = << >> THEN << >>
  ELSE IF s[1] \in Whitespace THEN lstrip(Tail(s))
  ELSE s

\* str.strip(): drop leading and trailing whitespace
strip(s) == lstrip(rstrip(s))

DigitValue(c) == CASE c = "0" -> 0 [] c = "1" -> 1 [] c = "2" -> 2 [] c = "3" -> 3

RECURSIVE DecimalValue(_)
DecimalValue(s) ==
  IF s = << >> THEN 0
  ELSE 10 * DecimalValue(SubSeq(s, 1, Len(s) - 1)) + DigitValue(s[Len(s)])

AllDigits(s) == s # << >> /\ \A i \in DOMAIN s : s[i] \in Digits

\* int(choice) raises ValueError exactly when this is FALSE: surrounding
\* whitespace is ignored, then an optional sign and at least one digit.
int_parses(s) ==
  LET t == strip(s) IN
    /\ t # << >>
    /\ IF t[1] = "-" THEN AllDigits(Tail(t)) ELSE AllDigits(t)

\* int(choice) when it parses
int(s) ==
  LET t == strip(s) IN
    IF t[1] = "-" THEN 0 - DecimalValue(Tail(t)) ELSE DecimalValue(t)

\* ----------------------------------------------------------- GameDetector
\* shutil.which(game) is not None, against the resolver's state `path`
is_installed(g, path) == g \in path

\* the filter left out: every candidate is reported
get_available_games_unfiltered(games, path) == games

\* [g for g in games if is_installed(g)]
get_available_games(games, path) ==
  SelectSeq(games, LAMBDA g : is_installed(g, path))

\* ------------------------------------------------ GameMenu.display_game_list
\* the layout switches to two columns above this many games
TwoColumnAbove == 10

two_columns(n) == n > TwoColumnAbove

\* mid = (len(available) + 1) // 2
column_split(n) == (n + 1) \div 2

\* the number printed (and mapped) for row i of the left column
left_number(i) == i + 1

\* the right column numbered one too low
right_number_low(i, mid) == i + mid

\* the number printed (and mapped) for row i of the right column
right_number(i, mid) == i + mid + 1

Max(a, b) == IF a >= b THEN a ELSE b

Cell(n, g) == [number |-> n, game |-> g]

\* the loop `for i in range(max(len(first_col), len(second_col)))`, from
\* iteration i on: the rows it appends and the map entries it assigns
RECURSIVE two_column_rows(_, _, _, _, _)
two_column_rows(first_col, second_col, mid, i, acc) ==
  IF i >= Max(Len(first_col), Len(second_col)) THEN acc
  ELSE
    LET left  == IF i < Len(first_col)
                 THEN << Cell(left_number(i), first_col[i + 1]) >> ELSE << >>
        right == IF i < Len(second_col)
                 THEN << Cell(right_number(i, mid), second_col[i + 1]) >> ELSE << >>
        m1 == IF i < Len(first_col)
              THEN (left_number(i) :> first_col[i + 1]) @@ acc.game_map
              ELSE acc.game_map
        m2 == IF i < Len(second_col)
              THEN (right_number(i, mid) :> second_col[i + 1]) @@ m1
              ELSE m1
    IN two_column_rows(first_col, second_col, mid, i + 1,
                       [rows |-> Append(acc.rows, left \o right), game_map |-> m2])

\* the loop `for idx, game in enumerate(available, 1)`
single_column_rows(available) ==
  [rows     |-> [idx \in 1..Len(available) |-> << Cell(idx, available[idx]) >>],
   game_map |-> [idx \in 1..Len(available) |-> available[idx]]]

\* ---- the lengths of the lines of menu_content
\* len() of the top border, and of every other literal line of the panels
BorderLength == 40

\* the width of the category title field: {category_name:^38}
TitleWidth == 38

\* the width of the name field of a single-column row: {game:<30}
NameWidth == 30

\* the width of either column of a two-column row: ljust(18), {right_game:<18}
ColumnWidth == 18

\* len(str(n)), n >= 0
RECURSIVE str_length(_)
str_length(n) == IF n < 10 THEN 1 ELSE 1 + str_length(n \div 10)

\* the length of a string of length n after ljust(w), {:<w} or {:^w}
padded_length(n, w) == IF n < w THEN w ELSE n

\* len(f"{number}) {game}"), and 0 for the "" of a missing cell
entry_length(cells, c) ==
  IF c \in DOMAIN cells
  THEN str_length(cells[c].number) + 2 + Len(cells[c].game)
  ELSE 0

\* len(f"│{category_name:^38}│")
title_line_length(category_name) ==
  1 + padded_length(Len(category_name), TitleWidth) + 1

\* len(f"│   {idx}) {game:<30}  │")
single_column_line_length(cell) ==
  1 + 3 + str_length(cell.number) + 2
    + padded_length(Len(cell.game), NameWidth) + 2 + 1

\* len(f"│ {left_padded} {right_game:<18} │")
two_column_line_length(cells) ==
  1 + 1 + padded_length(entry_length(cells, 1), ColumnWidth)
    + 1 + padded_length(entry_length(cells, 2), ColumnWidth) + 1 + 1

\* the nine literal lines of the "no games" panel
no_games_line_lengths == [i \in 1..9 |-> BorderLength]

\* the lengths of menu_lines for a non-empty list: top border, title,
\* separator, one line per game row, separator, back row, bottom border
game_list_line_lengths(category_name, game_rows, two) ==
  << BorderLength, title_line_length(category_name), BorderLength >>
    \o [r \in DOMAIN game_rows |->
          IF two THEN two_column_line_length(game_rows[r])
          ELSE single_column_line_length(game_rows[r][1])]
    \o << BorderLength, BorderLength, BorderLength >>

NoGamesPanel == "No games installed!"
GameListPanel == "game list"

\* display_game_list(games, category_name): the games found, the index map,
\* the panel kind and, per game row, the (number, game) cells it prints
display_game_list(games, category_name, path) ==
  LET available == get_available_games(games, path)
      n   == Len(available)
      mid == column_split(n)
      body == IF two_columns(n)
              THEN two_column_rows(SubSeq(available, 1, mid),
                                   SubSeq(available, mid + 1, n), mid, 0,
                                   [rows |-> << >>, game_map |-> << >>])
              ELSE single_column_rows(available)
  IN IF available = << >>
     THEN [available |-> available, game_map |-> << >>,
           panel |-> NoGamesPanel, label |-> "", rows |-> << >>,
           line_lengths |-> no_games_line_lengths]
     ELSE [available |-> available, game_map |-> body.game_map,
           panel |-> GameListPanel, label |-> category_name, rows |-> body.rows,
           line_lengths |-> game_list_line_lengths(category_name, body.rows,
                                                   two_columns(n))]

\* ------------------------------------------------------- the hub's state
VARIABLES
  pc,         \* the blocking point the hub is at (see Screens)
  category,   \* run_game_menu's arguments, NoCategory outside it
  path,       \* the resolver's state: the names shutil.which finds
  available,  \* run_game_menu's local `available` (last render)
  game_map,   \* run_game_menu's local `game_map` (last render)
  panel,      \* which panel `menu_content` holds (last render)
  rows,       \* the (number, game) cells of its game rows (last render)
  menu_lines, \* the length of each line of `menu_content` (last render)
  game,       \* run_game_menu's local `game`: the game handed to launch_game
  message,    \* show_error's argument while the error box is up
  return_to,  \* the caller show_error returns to
  event,      \* what ended the previous wait
  line,       \* the line read by the previous step, when it read one
  exit_code,  \* the status passed to sys.exit, NotExited while running
  exit_via,   \* who called sys.exit: "quit" or "main"
  text,       \* center_block's argument `text`
  width,      \* center_block's argument `width`
  centered,   \* center_block's result
  recentered  \* center_block's result on `centered`, same width

menu_vars == << pc, category, path, available, game_map, panel, rows,
                menu_lines, game,
                message, return_to, event, line, exit_code, exit_via >>
block_vars == << text, width, centered, recentered >>
vars == << menu_vars, block_vars >>

\* "MainMenu":     main_menu blocked in input(prompt)
\* "CategoryMenu": run_game_menu blocked in input(), games listed
\* "NoGames":      run_game_menu blocked in Terminal.pause(), nothing listed
\* "ErrorMessage": show_error blocked in Terminal.pause()
\* "Launching":    launch_game blocked in subprocess.run, child running
\* "Exited":       sys.exit was called
Screens == { "MainMenu", "CategoryMenu", "NoGames", "ErrorMessage",
             "Launching", "Exited" }

NotExited == 0 - 1
NoLine == << "no line" >>
NoGame == ""
NoPanel == ""
NoText == << "no text" >>
Ev(k) == [kind |-> k, code |-> 0]
NoMessage == << >>
NoCategory == [key |-> << >>, name |-> "", games |-> << >>,
               header_func |-> "", art_func |-> ""]

Zero == << "0" >>

\* the resolver states the model explores: every STORY game but the first is
\* installed, no BOARD game is, and the first STORY game and the first
\* MaxVolatile ACTION games come and go
PreInstalled == { STORY_GAMES[i] : i \in 2..Len(STORY_GAMES) }
Volatile == { STORY_GAMES[1] } \cup { ACTION_GAMES[i] : i \in 1..MaxVolatile }
Paths == { PreInstalled \cup v : v \in SUBSET Volatile }

\* what `except Exception as e` can bind besides FileNotFoundError
LaunchCauses == { "[Errno 13] Permission denied", "[Errno 8] Exec format error" }

ExitCodes == 0..MaxExitCode

Outcome(k, c, e) == [kind |-> k, code |-> c, cause |-> e]

\* ------------------------------------------------------------- main_menu
\* the final else missing: an unknown key falls through to quit
main_menu_branch_no_else(choice) ==
  IF choice \in DOMAIN CATEGORIES THEN "category" ELSE "quit"

\* the if/elif/else on `choice` in main_menu
main_menu_branch(choice) ==
  IF choice = Zero THEN "quit"
  ELSE IF choice \in DOMAIN CATEGORIES THEN "category"
  ELSE "error"

\* the art selected for the right side
art_func_for(choice) ==
  IF choice = << "1" >> THEN "get_story_art"
  ELSE IF choice = << "2" >> THEN "get_action_art"
  ELSE "get_boards_art"

\* the arguments main_menu passes to run_game_menu
run_game_menu_args(choice) ==
  [key |-> choice, name |-> CATEGORIES[choice].name,
   games |-> CATEGORIES[choice].games,
   header_func |-> CATEGORIES[choice].header,
   art_func |-> art_func_for(choice)]

\* the status quit() passes to sys.exit
quit_status == 0

\* the status main()'s KeyboardInterrupt handler passes to sys.exit
main_interrupt_status == 0

\* ---------------------------------------------------------- run_game_menu
\* the empty check left out
screen_after_render_unchecked(avail) == "CategoryMenu"

\* `if not available:` pause and return; otherwise read a selection
screen_after_render(avail) ==
  IF avail = << >> THEN "NoGames" ELSE "CategoryMenu"

\* the two error branches swapped
run_game_menu_branch_swapped(choice, gmap) ==
  IF choice = << "0" >> THEN "back"
  ELSE IF ~ int_parses(choice) THEN "invalid"
  ELSE IF int(choice) \in DOMAIN gmap THEN "launch"
  ELSE "not_a_number"

\* the classification of `choice` in run_game_menu
run_game_menu_branch(choice, gmap) ==
  IF choice = Zero THEN "back"
  ELSE IF ~ int_parses(choice) THEN "not_a_number"
  ELSE IF int(choice) \in DOMAIN gmap THEN "launch"
  ELSE "invalid"

\* the choice a line read yields: input().strip()
read_choice(l) == strip(l)

\* the choice `except (KeyboardInterrupt, EOFError)` substitutes
interrupted_choice == Zero

\* ------------------------------------------------------------ launch_game
\* subprocess.run(..., check=True): a non-zero exit status raises too
launch_game_error_checked(g, outcome) ==
  IF outcome.kind = "FileNotFoundError" THEN << "Error: ", g, " not found!" >>
  ELSE IF outcome.kind = "KeyboardInterrupt" THEN << >>
  ELSE IF outcome.kind = "Exception"
       THEN << "Error launching ", g, ": ", outcome.cause >>
  ELSE IF outcome.code # 0
       THEN << "Error launching ", g, ": ", "non-zero exit status" >>
  ELSE << >>

\* the messages formatted without the game's name
launch_game_error_unnamed(g, outcome) ==
  IF outcome.kind = "FileNotFoundError" THEN << "Error: game not found!" >>
  ELSE IF outcome.kind = "KeyboardInterrupt" THEN << >>
  ELSE IF outcome.kind = "Exception"
       THEN << "Error launching game: ", outcome.cause >>
  ELSE << >>

\* the message launch_game hands to show_error for an outcome of
\* subprocess.run, NoMessage when it shows none
launch_game_error(g, outcome) ==
  IF outcome.kind = "FileNotFoundError" THEN << "Error: ", g, " not found!" >>
  ELSE IF outcome.kind = "KeyboardInterrupt" THEN NoMessage
  ELSE IF outcome.kind = "Exception"
       THEN << "Error launching ", g, ": ", outcome.cause >>
  ELSE NoMessage

\* where a KeyboardInterrupt raised inside Terminal.pause is caught: pause,
\* show_error, run_game_menu and main_menu have no handler for it, main has
pause_interrupt_handler == "main"

\* ---------------------------------------------------------------- actions
Lines == SeqsUpTo(LineChars, MaxLineLen)

\* one pass of run_game_menu's loop up to its blocking point: scan, render
Render(cat) ==
  LET r == display_game_list(cat.games, cat.name, path) IN
    /\ pc' = screen_after_render(r.available)
    /\ category' = cat
    /\ available' = r.available
    /\ game_map' = r.game_map
    /\ panel' = r.panel
    /\ rows' = r.rows
    /\ menu_lines' = r.line_lengths
    /\ game' = NoGame
    /\ message' = NoMessage
    /\ return_to' = ""
    /\ UNCHANGED << path, exit_code, exit_via >>

\* show_error(msg) up to Terminal.pause()
ShowError(msg, caller, g) ==
  /\ pc' = "ErrorMessage"
  /\ message' = msg
  /\ return_to' = caller
  /\ game' = g
  /\ UNCHANGED << category, path, available, game_map, panel, rows, menu_lines,
                  exit_code, exit_via >>

\* run_game_menu returns to main_menu's loop, which blocks in input again
BackToMainMenu ==
  /\ pc' = "MainMenu"
  /\ category' = NoCategory
  /\ available' = << >>
  /\ game_map' = << >>
  /\ panel' = NoPanel
  /\ rows' = << >>
  /\ menu_lines' = << >>
  /\ game' = NoGame
  /\ message' = NoMessage
  /\ return_to' = ""
  /\ UNCHANGED << path, exit_code, exit_via >>

\* sys.exit(status)
Exit(status, via) ==
  /\ pc' = "Exited"
  /\ exit_code' = status
  /\ exit_via' = via
  /\ category' = NoCategory
  /\ available' = << >>
  /\ game_map' = << >>
  /\ panel' = NoPanel
  /\ rows' = << >>
  /\ menu_lines' = << >>
  /\ game' = NoGame
  /\ message' = NoMessage
  /\ return_to' = ""
  /\ UNCHANGED path

\* main_menu from `choice` on
MainMenuChoice(choice) ==
  LET b == main_menu_branch(choice) IN
    IF b = "quit" THEN Exit(quit_status, "quit")
    ELSE IF b = "category" THEN Render(run_game_menu_args(choice))
    ELSE ShowError(<< "Invalid selection!" >>, "MainMenu", NoGame)

\* what subprocess.run([game]) can do before the child runs
SpawnOutcomes(g) ==
  IF ~ is_installed(g, path)
  THEN { Outcome("FileNotFoundError", 0, "") }
  ELSE { Outcome("Started", 0, "") }
         \cup { Outcome("Exception", 0, c) : c \in LaunchCauses }

\* launch_game(g) up to its blocking point
LaunchGame(g) ==
  \E o \in SpawnOutcomes(g) :
    IF o.kind = "Started"
    THEN /\ pc' = "Launching"
         /\ game' = g
         /\ message' = NoMessage
         /\ return_to' = ""
         /\ UNCHANGED << category, path, available, game_map, panel, rows, menu_lines,
                         exit_code, exit_via >>
    ELSE ShowError(launch_game_error(g, o), "CategoryMenu", g)

\* run_game_menu from `choice` on
CategoryChoice(choice) ==
  LET b == run_game_menu_branch(choice, game_map) IN
    IF b = "back" THEN BackToMainMenu
    ELSE IF b = "not_a_number"
         THEN ShowError(<< "Please enter a valid number!" >>, "CategoryMenu", NoGame)
    ELSE IF b = "launch" THEN LaunchGame(game_map[int(choice)])
    ELSE ShowError(<< "Invalid selection!" >>, "CategoryMenu", NoGame)

\* a line arrives at main_menu's input(prompt)
MainMenuLine ==
  /\ UNCHANGED block_vars
  /\ pc = "MainMenu"
  /\ \E l \in Lines :
       /\ event' = Ev("line")
       /\ line' = l
       /\ MainMenuChoice(read_choice(l))

\* KeyboardInterrupt or EOFError at main_menu's input(prompt)
MainMenuInterrupt ==
  /\ UNCHANGED block_vars
  /\ pc = "MainMenu"
  /\ event' \in { Ev("interrupt"), Ev("eof") }
  /\ line' = NoLine
  /\ MainMenuChoice(interrupted_choice)

\* a line arrives at run_game_menu's input()
CategoryLine ==
  /\ UNCHANGED block_vars
  /\ pc = "CategoryMenu"
  /\ \E l \in Lines :
       /\ event' = Ev("line")
       /\ line' = l
       /\ CategoryChoice(read_choice(l))

\* KeyboardInterrupt or EOFError at run_game_menu's input()
CategoryInterrupt ==
  /\ UNCHANGED block_vars
  /\ pc = "CategoryMenu"
  /\ event' \in { Ev("interrupt"), Ev("eof") }
  /\ line' = NoLine
  /\ CategoryChoice(interrupted_choice)

\* launch_game after subprocess.run has returned or raised
AfterChild(o) ==
  LET m == launch_game_error(game, o) IN
    IF m = NoMessage THEN Render(category)
    ELSE ShowError(m, "CategoryMenu", game)

\* the child exits, with any code
ChildExit ==
  /\ UNCHANGED block_vars
  /\ pc = "Launching"
  /\ line' = NoLine
  /\ \E c \in ExitCodes :
       /\ event' = [kind |-> "child_exit", code |-> c]
       /\ AfterChild(Outcome("Completed", c, ""))

\* KeyboardInterrupt while subprocess.run waits for the child
ChildInterrupt ==
  /\ UNCHANGED block_vars
  /\ pc = "Launching"
  /\ event' = Ev("interrupt")
  /\ line' = NoLine
  /\ AfterChild(Outcome("KeyboardInterrupt", 0, ""))

\* Terminal.pause() returns: show_error or run_game_menu goes on
Dismiss ==
  IF pc = "ErrorMessage" /\ return_to = "CategoryMenu"
  THEN Render(category)
  ELSE BackToMainMenu

\* get_key returns a key while Terminal.pause polls
KeyPress ==
  /\ UNCHANGED block_vars
  /\ pc \in { "ErrorMessage", "NoGames" }
  /\ event' = Ev("key")
  /\ line' = NoLine
  /\ Dismiss

\* KeyboardInterrupt while Terminal.pause polls
PauseInterrupt ==
  /\ UNCHANGED block_vars
  /\ pc \in { "ErrorMessage", "NoGames" }
  /\ event' = Ev("interrupt")
  /\ line' = NoLine
  /\ IF pause_interrupt_handler = "main"
     THEN Exit(main_interrupt_status, "main")
     ELSE Dismiss

\* a game is installed or removed while the hub waits
PathChange ==
  /\ UNCHANGED block_vars
  /\ pc # "Exited"
  /\ \E g \in Volatile :
       path' = IF g \in path THEN path \ { g } ELSE path \cup { g }
  /\ event' = Ev("path")
  /\ line' = NoLine
  /\ UNCHANGED << pc, category, available, game_map, panel, rows, menu_lines, game,
                  message, return_to, exit_code, exit_via >>

Init ==
  /\ pc = "MainMenu"
  /\ category = NoCategory
  /\ path \in Paths
  /\ available = << >>
  /\ game_map = << >>
  /\ panel = NoPanel
  /\ rows = << >>
  /\ menu_lines = << >>
  /\ game = NoGame
  /\ message = NoMessage
  /\ return_to = ""
  /\ event = Ev("start")
  /\ line = NoLine
  /\ exit_code = NotExited
  /\ exit_via = ""
  /\ text = NoText
  /\ width = 0
  /\ centered = NoText
  /\ recentered = NoText

Next ==
  \/ MainMenuLine
  \/ MainMenuInterrupt
  \/ CategoryLine
  \/ CategoryInterrupt
  \/ ChildExit
  \/ ChildInterrupt
  \/ KeyPress
  \/ PauseInterrupt
  \/ PathChange

Spec == Init /\ [][Next]_vars

\* -------------------------------------------------- Terminal.center_block
NL == "\n"
BlockChars == { "x", " ", NL }

\* text.split('\n')
RECURSIVE split_lines(_)
split_lines(t) ==
  IF \A i \in DOMAIN t : t[i] # NL THEN << t >>
  ELSE LET k == CHOOSE i \in DOMAIN t :
                  t[i] = NL /\ \A j \in 1..(i - 1) : t[j] # NL
       IN << SubSeq(t, 1, k - 1) >> \o split_lines(SubSeq(t, k + 1, Len(t)))

\* '\n'.join(lines)
RECURSIVE join_lines(_)
join_lines(ls) ==
  IF ls = << >> THEN << >>
  ELSE IF Len(ls) = 1 THEN ls[1]
  ELSE ls[1] \o << NL >> \o join_lines(Tail(ls))

\* ' ' * n
Spaces(n) == [i \in 1..n |-> " "]

\* `if line.strip()`
is_blank(l) == strip(l) = << >>

\* the line measured with its trailing whitespace
measured_length_raw(l) == Len(l)

\* the length center_block measures a line by: len(line.rstrip())
measured_length(l) == Len(rstrip(l))

\* max((len(line.rstrip()) for line in lines if line.strip()), default=0)
max_line_length(ls) ==
  LET lens == { measured_length(ls[i]) : i \in { j \in DOMAIN ls : ~ is_blank(ls[j]) } }
  IN IF lens = { } THEN 0 ELSE CHOOSE m \in lens : \A n \in lens : n <= m

\* the padding rounded up instead of down
left_padding_ceil(w, m) == IF w - m < 0 THEN 0 ELSE (w - m + 1) \div 2

\* max(0, (width - max_line_length) // 2)
left_padding(w, m) == Max(0, (w - m) \div 2)

\* what center_block appends for one line
center_line(l, pad) ==
  IF ~ is_blank(l) THEN Spaces(pad) \o rstrip(l) ELSE << >>

center_block(t, w) ==
  LET ls  == split_lines(t)
      pad == left_padding(w, max_line_length(ls))
  IN join_lines([i \in DOMAIN ls |-> center_line(ls[i], pad)])

\* ----------------------------------------- center_block on its own: SpecBlock
Texts == SeqsUpTo(BlockChars, MaxTextLen)

InitBlock ==
  /\ pc = "CenterBlock" /\ category = NoCategory /\ path = PreInstalled
  /\ available = << >> /\ game_map = << >> /\ panel = NoPanel /\ rows = << >>
  /\ menu_lines = << >>
  /\ game = NoGame /\ message = NoMessage /\ return_to = ""
  /\ event = Ev("start") /\ line = NoLine
  /\ exit_code = NotExited /\ exit_via = ""
  /\ text \in Texts
  /\ width \in 0..MaxWidth
  /\ centered = NoText
  /\ recentered = NoText

\* a caller centers `text` for a terminal `width` columns wide
CenterBlock ==
  /\ centered = NoText
  /\ centered' = center_block(text, width)
  /\ UNCHANGED << menu_vars, text, width, recentered >>

\* the caller centers the centered block again, for the same width
CenterAgain ==
  /\ centered # NoText
  /\ recentered = NoText
  /\ recentered' = center_block(centered, width)
  /\ UNCHANGED << menu_vars, text, width, centered >>

NextBlock ==
  \/ CenterBlock
  \/ CenterAgain

SpecBlock == InitBlock /\ [][NextBlock]_vars

\* ------------------------------------- display_game_list on its own: SpecList
Min(a, b) == IF a <= b THEN a ELSE b

\* the resolver states SpecList explores for a candidate list: any subset of
\* its first MaxScan names
ScanPaths(games) == SUBSET { games[i] : i \in 1..Min(MaxScan, Len(games)) }

InitList ==
  /\ pc = "FormatList"
  /\ \E k \in DOMAIN CATEGORIES :
       /\ category = run_game_menu_args(k)
       /\ path \in ScanPaths(CATEGORIES[k].games)
  /\ available = << >> /\ game_map = << >> /\ panel = NoPanel /\ rows = << >>
  /\ menu_lines = << >>
  /\ game = NoGame /\ message = NoMessage /\ return_to = ""
  /\ event = Ev("start") /\ line = NoLine
  /\ exit_code = NotExited /\ exit_via = ""
  /\ text = NoText /\ width = 0 /\ centered = NoText /\ recentered = NoText

\* run_game_menu calls display_game_list(games, category_name)
FormatGameList ==
  /\ pc = "FormatList"
  /\ LET r == display_game_list(category.games, category.name, path) IN
       /\ pc' = "Formatted"
       /\ available' = r.available
       /\ game_map' = r.game_map
       /\ panel' = r.panel
       /\ rows' = r.rows
       /\ menu_lines' = r.line_lengths
  /\ event' = Ev("format")
  /\ UNCHANGED << category, path, game, message, return_to, line,
                  exit_code, exit_via, block_vars >>

NextList == FormatGameList

SpecList == InitList /\ [][NextList]_vars

\* ================================================================ claims
CategoryScreens == { "CategoryMenu", "NoGames" }

Position(L, g) == CHOOSE i \in DOMAIN L : L[i] = g

\* a is exactly the members of L that p resolves, in L's order
ExactlyResolvable(a, L, p) ==
  /\ \A i \in DOMAIN a : a[i] \in Range(L) /\ a[i] \in p
  /\ \A g \in Range(L) : g \in p => g \in Range(a)
  /\ \A i, j \in DOMAIN a : i < j => Position(L, a[i]) < Position(L, a[j])

\* C1: every step that displays a category screen (first entry, after a
\* launch returns, after an error is dismissed) lists exactly the category's
\* candidates that are resolvable at that moment, in candidate order.
C1_Rescan ==
  [][ (pc' \in CategoryScreens /\ event'.kind # "path")
        => ExactlyResolvable(available', category'.games, path') ]_vars

\* a category screen shown again after a child exited, listing one game that
\* is not the category's first candidate
C1_Witness ==
  /\ pc = "CategoryMenu"
  /\ event.kind = "child_exit"
  /\ Len(available) = 1
  /\ available[1] # category.games[1]

InvalidSelection == << "Invalid selection!" >>
NotANumber == << "Please enter a valid number!" >>

\* the classification C2 states, of the input l
C2_Step(l) ==
  IF l = << "0" >> THEN pc' = "MainMenu"
  ELSE IF int_parses(l) /\ int(l) \in DOMAIN game_map
       THEN /\ game' = game_map[int(l)]
            /\ pc' \in { "Launching", "ErrorMessage" }
  ELSE IF int_parses(l)
       THEN /\ pc' = "ErrorMessage" /\ message' = InvalidSelection
            /\ return_to' = "CategoryMenu" /\ game' = NoGame
  ELSE /\ pc' = "ErrorMessage" /\ message' = NotANumber
       /\ return_to' = "CategoryMenu" /\ game' = NoGame

\* a dismissed error of a category screen leads back to that category
C2_Dismiss ==
  (pc = "ErrorMessage" /\ return_to = "CategoryMenu" /\ event'.kind = "key")
    => (pc' \in CategoryScreens /\ category' = category)

\* C2 as stated: the line typed on a category screen is classified as it is
C2_Original ==
  [][ ((pc = "CategoryMenu" /\ event'.kind = "line") => C2_Step(line'))
      /\ C2_Dismiss ]_vars

\* C2 amended: the line typed on a category screen is classified after its
\* leading and trailing whitespace is removed: "0" goes to MainMenu, an
\* integer in the index map launches the game it maps to, an integer not in
\* the map gives "Invalid selection!", anything else "Please enter a valid
\* number!"; a dismissed error leads back to the same category.
C2_Classify ==
  [][ ((pc = "CategoryMenu" /\ event'.kind = "line") => C2_Step(strip(line')))
      /\ C2_Dismiss ]_vars

\* "2" typed on a category screen launched the second game listed
C2_Witness ==
  /\ pc = "Launching"
  /\ event.kind = "line"
  /\ line = << "2" >>
  /\ game = available[2]

\* the category each main-menu key stands for
C3_Category(k) ==
  IF k = << "1" >>
  THEN [key |-> k, name |-> "Story / Roguelike", games |-> STORY_GAMES,
        header_func |-> "story_header", art_func |-> "get_story_art"]
  ELSE IF k = << "2" >>
  THEN [key |-> k, name |-> "Action / Arcade", games |-> ACTION_GAMES,
        header_func |-> "action_header", art_func |-> "get_action_art"]
  ELSE [key |-> k, name |-> "Boards / Classics", games |-> BOARD_GAMES,
        header_func |-> "boards_header", art_func |-> "get_boards_art"]

\* the transitions C3 states, of the input l
C3_Step(l) ==
  IF l = << "0" >>
  THEN pc' = "Exited" /\ exit_via' = "quit" /\ exit_code' = 0
  ELSE IF l \in { << "1" >>, << "2" >>, << "3" >> }
       THEN pc' \in CategoryScreens /\ category' = C3_Category(l)
  ELSE /\ pc' = "ErrorMessage" /\ message' = InvalidSelection
       /\ return_to' = "MainMenu"

\* a dismissed error of the main menu leads back to the main menu
C3_Dismiss ==
  (pc = "ErrorMessage" /\ return_to = "MainMenu" /\ event'.kind = "key")
    => pc' = "MainMenu"

\* C3 as stated: the line typed at the main menu drives the transition as is
C3_Original ==
  [][ ((pc = "MainMenu" /\ event'.kind = "line") => C3_Step(line'))
      /\ C3_Dismiss ]_vars

\* C3 amended: the line typed at the main menu, with its leading and trailing
\* whitespace removed, drives the transition: "0" exits with status 0 through
\* quit, "1", "2", "3" open that category with its games, header and art,
\* anything else gives "Invalid selection!" and then the main menu again.
C3_MainMenu ==
  [][ ((pc = "MainMenu" /\ event'.kind = "line") => C3_Step(strip(line')))
      /\ C3_Dismiss ]_vars

\* "00" typed at the main menu is on the error screen
C3_Witness ==
  /\ pc = "ErrorMessage"
  /\ return_to = "MainMenu"
  /\ message = InvalidSelection
  /\ line = << "0", "0" >>

\* ceil(n / 2)
HalfUp(n) == (n \div 2) + (n % 2)

\* the cells printed with the number k
CellsNumbered(k) ==
  { rc \in { << r, c >> : r \in DOMAIN rows, c \in 1..2 } :
      /\ rc[2] \in DOMAIN rows[rc[1]]
      /\ rows[rc[1]][rc[2]].number = k }

\* C4: the index map of N listed games has keys 1..N, key k maps to the k-th
\* game and to the game printed beside k; up to 10 games row i shows key i,
\* above 10 row i shows key i on the left and key i + ceil(N/2) on the right.
C4_IndexMap ==
  pc = "Formatted" =>
    LET n == Len(available)
        mid == HalfUp(n)
    IN /\ DOMAIN game_map = 1..n
       /\ \A k \in 1..n : game_map[k] = available[k]
       /\ \A k \in 1..n :
            /\ Cardinality(CellsNumbered(k)) = 1
            /\ \A rc \in CellsNumbered(k) : rows[rc[1]][rc[2]].game = game_map[k]
       /\ \A r \in DOMAIN rows : \A c \in DOMAIN rows[r] :
            rows[r][c].number \in 1..n
       /\ n <= 10 => /\ Len(rows) = n
                     /\ \A r \in 1..n : rows[r] = << Cell(r, available[r]) >>
       /\ n > 10 => /\ Len(rows) = mid
                    /\ \A r \in 1..mid :
                         /\ rows[r][1] = Cell(r, available[r])
                         /\ r + mid <= n
                              => rows[r][2] = Cell(r + mid, available[r + mid])
                         /\ Len(rows[r]) = IF r + mid <= n THEN 2 ELSE 1

\* 12 games listed: the first row's right cell is key 7, the 7th game
C4_Witness ==
  /\ pc = "Formatted"
  /\ Len(available) = 12
  /\ rows[1][2] = Cell(7, available[7])
  /\ game_map[7] = available[7]

\* C5: the hub stays in Launching until the child exits or the hub is
\* interrupted; whatever the exit code, it then shows the same category
\* again and no error screen.
C5_ChildReturn ==
  [][ /\ (pc = "Launching" /\ pc' # "Launching")
          => event'.kind \in { "child_exit", "interrupt" }
      /\ (pc = "Launching" /\ event'.kind \in { "child_exit", "interrupt" })
          => /\ pc' \in CategoryScreens
             /\ category' = category
             /\ message' = NoMessage ]_vars

\* back on the category screen after a child exited with a non-zero code
C5_Witness ==
  /\ pc = "CategoryMenu"
  /\ event.kind = "child_exit"
  /\ event.code # 0

\* C6: a selected game that cannot be started (not resolvable at launch time,
\* or another failure to start it) puts the hub on an error screen whose text
\* contains the game's name (and the cause, for another failure); dismissing
\* it shows the same category again.
C6_LaunchFailure ==
  [][ /\ (pc = "CategoryMenu" /\ event'.kind = "line" /\ game' # NoGame)
          => /\ pc' \in { "Launching", "ErrorMessage" }
             /\ ~ is_installed(game', path') => pc' = "ErrorMessage"
             /\ pc' = "ErrorMessage"
                  => /\ game' \in Range(message')
                     /\ return_to' = "CategoryMenu"
                     /\ is_installed(game', path')
                          => \E c \in LaunchCauses : c \in Range(message')
      /\ (pc = "ErrorMessage" /\ game # NoGame /\ event'.kind = "key")
          => (pc' \in CategoryScreens /\ category' = category) ]_vars

\* the error screen of a game that was listed and is gone at launch time
C6_Witness ==
  /\ pc = "ErrorMessage"
  /\ game # NoGame
  /\ game \in Range(available)
  /\ ~ is_installed(game, path)
  /\ game \in Range(message)

\* C7: an interrupt at a blocking point leads to the enclosing menu: at the
\* main menu to the exit through quit, at a category's line read to the main
\* menu, at the child wait to the category, at a key wait to the screen's
\* return state.
C7_InterruptLocal ==
  [][ event'.kind = "interrupt" =>
        /\ pc = "MainMenu" => (pc' = "Exited" /\ exit_via' = "quit")
        /\ pc = "CategoryMenu" => pc' = "MainMenu"
        /\ pc = "Launching" => (pc' \in CategoryScreens /\ category' = category)
        /\ pc = "NoGames" => pc' = "MainMenu"
        /\ (pc = "ErrorMessage" /\ return_to = "MainMenu") => pc' = "MainMenu"
        /\ (pc = "ErrorMessage" /\ return_to = "CategoryMenu")
             => (pc' \in CategoryScreens /\ category' = category) ]_vars

\* C8: the process ends only from the main menu ("0", or an interrupt there).
C8_NothingFatal ==
  [][ (pc # "Exited" /\ pc' = "Exited") => pc = "MainMenu" ]_vars

\* C9: a category without a resolvable game gets the "no games" panel and an
\* empty index map; on that screen no line is read and nothing is launched,
\* and a key press leads to the main menu.
C9_EmptyCategory ==
  [][ /\ ( /\ pc' \in CategoryScreens
           /\ event'.kind # "path"
           /\ \A g \in Range(category'.games) : g \notin path' )
          => /\ pc' = "NoGames"
             /\ panel' = NoGamesPanel
             /\ DOMAIN game_map' = { }
      /\ pc = "NoGames"
          => /\ DOMAIN game_map = { }
             /\ event'.kind # "line"
             /\ game' = NoGame
             /\ pc' \in { "NoGames", "MainMenu", "Exited" }
             /\ event'.kind = "key" => pc' = "MainMenu" ]_vars

\* the "no games" screen of the action category, entered with "2"
C9_Witness ==
  /\ pc = "NoGames"
  /\ category.games = ACTION_GAMES
  /\ panel = NoGamesPanel
  /\ event.kind = "line"

\* the statement of C10 for a given way of trimming a line
C10_Layout(Trim(_)) ==
  centered # NoText =>
    LET ls  == split_lines(text)
        out == split_lines(centered)
        nonblank == { i \in DOMAIN ls : \E j \in DOMAIN ls[i] : ls[i][j] # " " }
        M   == IF nonblank = { } THEN 0
               ELSE CHOOSE m \in { Len(Trim(ls[i])) : i \in nonblank } :
                      \A i \in nonblank : Len(Trim(ls[i])) <= m
        pad == IF width - M < 0 THEN 0 ELSE (width - M) \div 2
    IN /\ Len(out) = Len(ls)
       /\ \A i \in DOMAIN ls :
            IF i \in nonblank
            THEN /\ Len(out[i]) = pad + Len(Trim(ls[i]))
                 /\ \A j \in 1..pad : out[i][j] = " "
                 /\ SubSeq(out[i], pad + 1, Len(out[i])) = Trim(ls[i])
            ELSE out[i] = << >>

\* C10 as stated: lines are measured and emitted with leading and trailing
\* whitespace trimmed
C10_Original == C10_Layout(strip)

\* C10 amended: with M the longest non-blank line after removing trailing
\* whitespace only, every non-blank line is emitted as max(0, (W-M) div 2)
\* spaces followed by the line without its trailing whitespace (leading
\* whitespace kept), and every blank line as the empty string.
C10_Centered == C10_Layout(rstrip)

\* a line with leading and trailing whitespace, centered with padding
C10_Witness ==
  /\ centered # NoText
  /\ text = << " ", "x", " " >>
  /\ width = MaxWidth
  /\ centered = << " ", " ", "x" >>

\* the longest non-blank line of t, trailing whitespace not counted
C11_MaxLen(t) ==
  LET ls == split_lines(t)
      nonblank == { i \in DOMAIN ls : \E j \in DOMAIN ls[i] : ls[i][j] # " " }
      lens == { Len(rstrip(ls[i])) : i \in nonblank }
  IN IF lens = { } THEN 0 - 1
     ELSE CHOOSE m \in lens : \A n \in lens : n <= m

\* C11 as stated: centering the centered block again, for the same width,
\* changes nothing
C11_Original == recentered # NoText => recentered = centered

\* C11 amended: centering the centered block again for the same width W
\* changes nothing exactly when the block has no non-blank line or W - M <= 2,
\* M being its longest non-blank line without trailing whitespace; otherwise
\* the second pass indents the kept padding further.
C11_Idempotent ==
  recentered # NoText =>
    ( recentered = centered
        <=> (C11_MaxLen(text) < 0 \/ width - C11_MaxLen(text) <= 2) )

\* "x" centered twice for width 3: one space of padding, both times
C11_Witness ==
  /\ text = << "x" >>
  /\ width = 3
  /\ centered = << " ", "x" >>
  /\ recentered = centered

\* every listed name fits its column: 30 characters in one column, the 18
\* of a column less the "<number>) " before it in two
C12_NamesFit ==
  IF Len(available) <= 10
  THEN \A k \in DOMAIN available : Len(available[k]) <= 30
  ELSE \A r \in DOMAIN rows : \A c \in DOMAIN rows[r] :
         Len(rows[r][c].game) <= 18 - (str_length(rows[r][c].number) + 2)

\* C12: with at least one game listed and every name fitting its column,
\* every line of the panel is as long as its top border, 40 characters.
C12_Aligned ==
  (pc = "Formatted" /\ Len(available) >= 1 /\ C12_NamesFit)
    => \A i \in DOMAIN menu_lines :
         menu_lines[i] = menu_lines[1] /\ menu_lines[i] = 40

====
